---- MODULE Spec2Model ----
(***************************************************************************)
(* Model of src/lib.rs of shared_memory-rs: the SharedMemConf builder      *)
(* (new, add_lock, valid_lock_range), SharedMemConf::create,               *)
(* SharedMem::open and Drop for SharedMem, over a file system holding the  *)
(* link files and an OS table of shared mappings.                          *)
(*                                                                         *)
(* Memory is modelled in cells: one cell holds one header field (a usize   *)
(* or the u8 tag padded to a word).  A machine word is a number modulo     *)
(* WordMod; every addition the code performs on usize values is done       *)
(* modulo WordMod in a build without overflow checks and panics in a build *)
(* with them (variable overflow_checks).                                   *)
(***************************************************************************)
EXTENDS Integers, Sequences, FiniteSets, TLC

VARIABLES
    overflow_checks,  \* TRUE: build panics on usize overflow; FALSE: it wraps
    files,            \* link path -> NoFile or the link file
    next_ino,         \* number the next new file gets
    maps,             \* os unique id -> NoMap or the shared mapping
    proc              \* process -> its position and locals

vars == <<overflow_checks, files, next_ino, maps, proc>>

----------------------------------------------------------------------------
(* Bounds of the model *)

\* usize values are 0 .. WordMod-1
WordMod == 64

Word == 0 .. (WordMod - 1)

Procs == {"p1", "p2", "p3"}
Paths == {"a.link", "b.link"}
\* identifiers the OS hands out for mappings
Ids == {"test_mapping", "shm_1"}

----------------------------------------------------------------------------
(* Layout records, lib.rs 65-78 *)

\* size_of::<MetaDataHeader>(): meta_size, user_size, num_locks, num_events
SizeOfMetaDataHeader == 4
\* size_of::<LockHeader>(): uid, offset, length
SizeOfLockHeader == 3
\* size_of::<EventHeader>(): event_id
SizeOfEventHeader == 1

(* locking.rs is not part of the sources: lock kinds, their tags and their
   native footprints follow the specification's LockCapability *)
LockType == {"Mutex", "RwLock"}

LockTypeAsU8(lock_type) == IF lock_type = "Mutex" THEN 0 ELSE 1

\* lock_uid_to_type(&uid): the kind of a tag, "Unknown" for the Err case
lock_uid_to_type(uid) ==
    IF uid = 0 THEN "Mutex" ELSE IF uid = 1 THEN "RwLock" ELSE "Unknown"

\* interface.size_of(): native footprint of a lock kind, in cells
LockImplSizeOf(lock_type) == IF lock_type = "Mutex" THEN 1 ELSE 2

----------------------------------------------------------------------------
(* usize arithmetic *)

Overflows(a, b) == a + b >= WordMod

WrapAdd(a, b) == (a + b) % WordMod

----------------------------------------------------------------------------
(* SharedMemConf, lib.rs 81-147 *)

\* no file at a path, no mapping under an identifier, no configuration and
\* no mapping held by a process
NoFile == [ino |-> 0, content |-> "", creators |-> {}]
NoMap == [size |-> 0, tampered |-> FALSE, mem |-> << >>, constructed |-> << >>]
NoConf == [owner |-> FALSE, link_path |-> "", size |-> 0, lock_data |-> << >>,
           event_data |-> << >>, meta_size |-> 0]
NoData == [unique_id |-> "", map_ptr |-> 0, map_size |-> 0]

\* `offset + length` at line 96 is reached and overflows
valid_lock_range_overflows(map_size, offset, length) ==
    offset # map_size /\ Overflows(offset, length)

\* the value valid_lock_range returns when it does not panic
valid_lock_range(map_size, offset, length) ==
    IF offset = map_size
    THEN FALSE
    ELSE IF WrapAdd(offset, length) > map_size
         THEN FALSE
         ELSE TRUE

\* SharedMemConf::new
new(new_link_path, map_size) ==
    [ owner      |-> FALSE,
      link_path  |-> new_link_path,
      size       |-> map_size,
      lock_data  |-> << >>,
      event_data |-> << >>,
      meta_size  |-> SizeOfMetaDataHeader ]

\* the GenericLock add_lock pushes: pointers are null until create()
NewGenericLock(lock_type, offset, length) ==
    [ uid      |-> LockTypeAsU8(lock_type),
      offset   |-> offset,
      length   |-> length,
      lock_ptr |-> 0,
      data_ptr |-> 0 ]

\* the configuration add_lock returns in the Ok case
add_lock(conf, lock_type, offset, length) ==
    [ conf EXCEPT
        !.meta_size = WrapAdd(@, SizeOfLockHeader + LockImplSizeOf(lock_type)),
        !.lock_data = Append(@, NewGenericLock(lock_type, offset, length)) ]

----------------------------------------------------------------------------
(* Collaborators: the file system and the OS mapping table *)

\* let some_str = String::from("test_mapping"), lib.rs 161
some_str == "test_mapping"

\* what a short write of some_str leaves in the file
ShortWrite == "test_"

\* a link file that holds the identifier from the moment it is made
NewFile_Published(ino, p) == [ino |-> ino, content |-> some_str, creators |-> {p}]

\* a link file just made by File::create: empty
NewFile(ino, p) == [ino |-> ino, content |-> "", creators |-> {p}]

\* where the OS maps a region in the address space of a process
MapPtr(p) == IF p = "p1" THEN 8 ELSE IF p = "p2" THEN 16 ELSE 24

\* a fresh mapping: zero pages; tampered records that something other than
\* create() has changed the mapping since, constructed lists the cells where
\* a primitive was constructed, in the order of construction
NewMapping(size) ==
    [size |-> size, tampered |-> FALSE, mem |-> [c \in 1..size |-> 0],
     constructed |-> << >>]

\* value of a constructed native primitive's cells; fresh cells hold 0
PrimLive == 1

\* os_impl::create_mapping(name, map_size): the identifiers the OS may give
\* the new mapping, each one naming no other mapping, or "MappingError"
create_mapping(name, map_size) ==
    IF map_size = 0
    THEN {"MappingError"}
    ELSE {id \in Ids : maps[id] = NoMap} \cup {"MappingError"}

\* os_impl::open_mapping(unique_id): "Ok" when the identifier names a
\* mapping and the OS attaches to it, or "MappingError"
open_mapping(unique_id) ==
    IF unique_id \in Ids /\ maps[unique_id] # NoMap
    THEN {"Ok", "MappingError"}
    ELSE {"MappingError"}

\* lock.interface.init(lock, create_new): construct the primitive, or attach
\* to the constructed one; either may fail
lock_init(create_new) == {"Ok", "InitError"}

\* the create_new argument of init: true at line 191 of create()
CreateNewAtCreate == TRUE

\* open() passing true where line 373 passes false
CreateNewAtOpen_True == TRUE

\* the create_new argument of init: false at line 373 of open()
CreateNewAtOpen == FALSE

\* the mapping after init(lock, create_new) has succeeded on the foot cells
\* at cell: constructed when create_new, left alone otherwise
Initialized(map, cell, foot, create_new) ==
    IF create_new
    THEN [map EXCEPT !.mem = [c \in DOMAIN map.mem |->
                                IF c - 1 >= cell /\ c - 1 < cell + foot
                                THEN PrimLive ELSE map.mem[c]],
                     !.constructed = Append(@, cell)]
    ELSE map

\* cell of a mapping an address of this process refers to
CellOf(os_data, addr) == (addr + WordMod - os_data.map_ptr) % WordMod

InMapping(os_data, addr) == CellOf(os_data, addr) < os_data.map_size

\* mem with cells first.. of it set to the values of seq; a cell outside the
\* mapping is not part of mem and stays out of it
WriteCells(mem, first, seq) ==
    [c \in DOMAIN mem |->
        IF c - 1 >= first /\ c - 1 < first + Len(seq) THEN seq[c - first] ELSE mem[c]]

----------------------------------------------------------------------------
(* Processes *)

NoCall == [op |-> "none"]

IdleProc ==
    [ pc        |-> "idle",
      conf      |-> NoConf,
      os_data   |-> NoData,
      link_file |-> 0,
      path      |-> "",
      real_path |-> "",
      cur_ptr   |-> 0,
      user_ptr  |-> 0,
      i         |-> 0,
      num_locks |-> 0,
      how       |-> "none",
      held      |-> {},
      inits     |-> << >>,
      result    |-> "none",
      call      |-> NoCall ]

\* the process after a call that returned Err(result) or panicked: every
\* local of the call is dropped
Returned(call, result) ==
    [IdleProc EXCEPT !.result = result, !.call = call,
                     !.pc = IF result \in {"Panic", "Segv"} THEN "aborted" ELSE "idle"]

\* let conf = SharedMemConf::new(link, size)
New(p, link, size) ==
    /\ proc[p].pc = "idle"
    /\ proc' = [proc EXCEPT ![p] =
                  [IdleProc EXCEPT !.pc = "conf", !.conf = new(link, size),
                                   !.call = [op |-> "new"], !.result = "Ok"]]
    /\ UNCHANGED <<overflow_checks, files, next_ino, maps>>

\* conf = conf.add_lock(lock_type, offset, length), lib.rs 117-141
AddLock(p, lock_type, offset, length) ==
    /\ proc[p].pc = "conf"
    /\ LET conf == proc[p].conf
           call == [op |-> "add_lock", size |-> conf.size,
                    offset |-> offset, length |-> length]
       IN  IF overflow_checks /\ valid_lock_range_overflows(conf.size, offset, length)
           THEN proc' = [proc EXCEPT ![p] = Returned(call, "Panic")]
           ELSE IF ~valid_lock_range(conf.size, offset, length)
           THEN proc' = [proc EXCEPT ![p] = Returned(call, "InvalidRange")]
           ELSE proc' = [proc EXCEPT ![p] =
                           [@ EXCEPT !.conf = add_lock(conf, lock_type, offset, length),
                                     !.result = "Ok", !.call = call]]
    /\ UNCHANGED <<overflow_checks, files, next_ino, maps>>

\* SharedMem::create(new_link_path, lock_type, size), lib.rs 266-269, and
\* SharedMemRaw::create, 427-430, up to their call of create():
\*   SharedMemConf::new(new_link_path, size).add_lock(lock_type, 0, size).unwrap()
\* unwrap() panics on the Err of add_lock; the create() that follows is the
\* one of SharedMemConf
SharedMem_create(p, new_link_path, lock_type, size) ==
    /\ proc[p].pc = "idle"
    /\ LET conf == new(new_link_path, size)
           call == [op |-> "SharedMem::create", path |-> new_link_path,
                    size |-> size]
       IN  IF overflow_checks /\ valid_lock_range_overflows(conf.size, 0, size)
           THEN proc' = [proc EXCEPT ![p] = Returned(call, "Panic")]
           ELSE IF ~valid_lock_range(conf.size, 0, size)
           THEN proc' = [proc EXCEPT ![p] = Returned(call, "Panic")]
           ELSE proc' = [proc EXCEPT ![p] =
                           [IdleProc EXCEPT !.pc = "conf",
                                            !.conf = add_lock(conf, lock_type, 0, size),
                                            !.result = "Ok", !.call = call]]
    /\ UNCHANGED <<overflow_checks, files, next_ino, maps>>

----------------------------------------------------------------------------
(* SharedMemConf::create, lib.rs 150-235 *)

CreateCall(p) == [op |-> "create", path |-> proc[p].conf.link_path]

\* create() without the is_file() test of line 154
CreateCheckLink_Unchecked(p) ==
    /\ proc[p].pc = "conf"
    /\ proc' = [proc EXCEPT ![p].pc = "c_link"]
    /\ UNCHANGED <<overflow_checks, files, next_ino, maps>>

\* lines 154-156: if self.link_path.is_file() { return Err(..) }
CreateCheckLink(p) ==
    /\ proc[p].pc = "conf"
    /\ IF files[proc[p].conf.link_path] # NoFile
       THEN proc' = [proc EXCEPT ![p] = Returned(CreateCall(p), "AlreadyExists")]
       ELSE proc' = [proc EXCEPT ![p].pc = "c_link"]
    /\ UNCHANGED <<overflow_checks, files, next_ino, maps>>

\* lines 157-158: cur_link = File::create(&self.link_path)?; self.owner = true
\* File::create makes the file, or truncates the one that is there
CreateLinkFile(p) ==
    /\ proc[p].pc = "c_link"
    /\ LET path == proc[p].conf.link_path
           made == files[path] = NoFile
           ino  == IF made THEN next_ino ELSE files[path].ino
       IN  /\ files' = [files EXCEPT ![path] =
                          IF made THEN NewFile(next_ino, p)
                          ELSE [@ EXCEPT !.content = "", !.creators = @ \cup {p}]]
           /\ next_ino' = IF made THEN next_ino + 1 ELSE next_ino
           /\ proc' = [proc EXCEPT ![p] =
                         [@ EXCEPT !.pc = "c_map", !.link_file = ino,
                                   !.conf = [@ EXCEPT !.owner = TRUE]]]
    /\ UNCHANGED <<overflow_checks, maps>>

\* line 164: os_impl::create_mapping(&some_str, self.meta_size + self.size)?
\* lines 166-167: cur_ptr, user_ptr
\* The collaborator makes a new mapping under an identifier of its choice
\* that names no other mapping, or fails.
CreateMapping(p) ==
    /\ proc[p].pc = "c_map"
    /\ LET conf  == proc[p].conf
           total == WrapAdd(conf.meta_size, conf.size)
       IN  IF overflow_checks /\ Overflows(conf.meta_size, conf.size)
           THEN /\ proc' = [proc EXCEPT ![p] = Returned(CreateCall(p), "Panic")]
                /\ UNCHANGED maps
           ELSE \E id \in create_mapping(some_str, total) :
                  IF id # "MappingError"
                  THEN /\ maps' = [maps EXCEPT ![id] = NewMapping(total)]
                       /\ proc' = [proc EXCEPT ![p] =
                             [@ EXCEPT !.pc = "c_hdr",
                                       !.os_data = [unique_id |-> id,
                                                    map_ptr   |-> MapPtr(p),
                                                    map_size  |-> total],
                                       !.cur_ptr = MapPtr(p),
                                       !.user_ptr = WrapAdd(MapPtr(p), conf.meta_size)]]
                  ELSE /\ proc' = [proc EXCEPT ![p] = Returned(CreateCall(p), "MappingError")]
                       /\ UNCHANGED maps
    /\ UNCHANGED <<overflow_checks, files, next_ino>>

\* the four fields of the MetaDataHeader create writes, lines 171-174
MetaHeaderOf(conf) ==
    << conf.meta_size, conf.size, Len(conf.lock_data), Len(conf.event_data) >>

\* the three fields of a LockHeader create writes, lines 181-183
LockHeaderOf(lock) == << lock.uid, lock.offset, lock.length >>

\* A write through a pointer outside the mapping is undefined behaviour:
\* the process is killed, or the write lands outside the mapping and the
\* call goes on.
WriteOutcomes(os_data, addr, len) ==
    IF \A k \in 0..(len - 1) : InMapping(os_data, WrapAdd(addr, k))
    THEN {"written"}
    ELSE {"Segv", "stray"}

\* lines 170-175: write the MetaDataHeader at the base of the mapping
CreateWriteHeader(p) ==
    /\ proc[p].pc = "c_hdr"
    /\ LET os_data == proc[p].os_data
           id      == os_data.unique_id
       IN  \E out \in WriteOutcomes(os_data, proc[p].cur_ptr, SizeOfMetaDataHeader) :
             IF out = "Segv"
             THEN /\ proc' = [proc EXCEPT ![p] = Returned(CreateCall(p), "Segv")]
                  /\ UNCHANGED maps
             ELSE /\ maps' = [maps EXCEPT ![id].mem =
                                WriteCells(@, CellOf(os_data, proc[p].cur_ptr),
                                           MetaHeaderOf(proc[p].conf))]
                  /\ proc' = [proc EXCEPT ![p] =
                                [@ EXCEPT !.pc = "c_lock", !.i = 1,
                                          !.cur_ptr = WrapAdd(@, SizeOfMetaDataHeader)]]
    /\ UNCHANGED <<overflow_checks, files, next_ino>>

\* lines 186-187 with data_ptr set to the start of the user region
SetLockPointers_NoOffset(lock, cur_ptr, user_ptr) ==
    [lock EXCEPT !.lock_ptr = cur_ptr, !.data_ptr = user_ptr]

\* lines 186-187: lock.lock_ptr = cur_ptr; lock.data_ptr = user_ptr + lock.offset
\* cur_ptr is the cursor after the LockHeader
SetLockPointers(lock, cur_ptr, user_ptr) ==
    [lock EXCEPT !.lock_ptr = cur_ptr, !.data_ptr = WrapAdd(user_ptr, lock.offset)]

\* lines 178-192, one turn of the loop: write the LockHeader, set the
\* pointers of the lock, initialize the primitive as its creator
CreateInitLock(p) ==
    /\ proc[p].pc = "c_lock"
    /\ proc[p].i <= Len(proc[p].conf.lock_data)
    /\ LET os_data  == proc[p].os_data
           id       == os_data.unique_id
           i        == proc[p].i
           lock     == proc[p].conf.lock_data[i]
           foot     == LockImplSizeOf(lock_uid_to_type(lock.uid))
           lock_ptr == WrapAdd(proc[p].cur_ptr, SizeOfLockHeader)
           hdr      == WriteCells(maps[id].mem, CellOf(os_data, proc[p].cur_ptr),
                                  LockHeaderOf(lock))
       IN  \E out \in WriteOutcomes(os_data, proc[p].cur_ptr, SizeOfLockHeader + foot),
              init \in lock_init(CreateNewAtCreate) :
             IF out = "Segv"
             THEN /\ proc' = [proc EXCEPT ![p] = Returned(CreateCall(p), "Segv")]
                  /\ UNCHANGED maps
             ELSE IF init = "InitError"
             THEN /\ maps' = [maps EXCEPT ![id].mem = hdr]
                  /\ proc' = [proc EXCEPT ![p] = Returned(CreateCall(p), "InitError")]
             ELSE /\ maps' = [maps EXCEPT ![id] =
                                Initialized([@ EXCEPT !.mem = hdr],
                                            CellOf(os_data, lock_ptr), foot,
                                            CreateNewAtCreate)]
                  /\ proc' = [proc EXCEPT ![p] =
                                [@ EXCEPT !.i = i + 1,
                                          !.inits = Append(@,
                                              [cell |-> CellOf(os_data, lock_ptr),
                                               create_new |-> CreateNewAtCreate]),
                                          !.cur_ptr = WrapAdd(lock_ptr, foot),
                                          !.conf = [@ EXCEPT !.lock_data[i] =
                                                      SetLockPointers(@, lock_ptr,
                                                                      proc[p].user_ptr)]]]
    /\ UNCHANGED <<overflow_checks, files, next_ino>>

\* what cur_link.write(..) leaves in the file system: the write goes to the
\* file cur_link has open, which may no longer be the file at the path
LinkWritten(path, ino, content) ==
    IF files[path] # NoFile /\ files[path].ino = ino
    THEN [files EXCEPT ![path].content = content]
    ELSE files

\* lines 195-235: no event is ever configured; write some_str to the link
\* file and return the SharedMem
CreateWriteLink(p) ==
    /\ proc[p].pc = "c_lock"
    /\ proc[p].i > Len(proc[p].conf.lock_data)
    /\ LET path == proc[p].conf.link_path
       IN  \E out \in {"full", "short", "error"} :
             IF out = "full"
             THEN /\ files' = LinkWritten(path, proc[p].link_file, some_str)
                  /\ proc' = [proc EXCEPT ![p] =
                                [@ EXCEPT !.pc = "live", !.how = "create",
                                          !.result = "Ok", !.call = CreateCall(p)]]
             ELSE /\ files' = IF out = "short"
                              THEN LinkWritten(path, proc[p].link_file, ShortWrite)
                              ELSE files
                  /\ proc' = [proc EXCEPT ![p] = Returned(CreateCall(p), "PersistError")]
    /\ UNCHANGED <<overflow_checks, next_ino, maps>>

----------------------------------------------------------------------------
(* SharedMem::open, lib.rs 270-398 *)

OpenCall(p) == [op |-> "open", path |-> proc[p].path]

\* lines 273-275: if !existing_link_path.is_file() { return Err(..) }
OpenCheckLink(p, link) ==
    /\ proc[p].pc = "idle"
    /\ IF files[link] = NoFile
       THEN proc' = [proc EXCEPT ![p] =
                       Returned([op |-> "open", path |-> link], "NotFound")]
       ELSE proc' = [proc EXCEPT ![p] = [IdleProc EXCEPT !.pc = "o_file", !.path = link]]
    /\ UNCHANGED <<overflow_checks, files, next_ino, maps>>

\* lines 278-281: File::open(..)?, read_to_end, String::from_utf8
OpenReadLink(p) ==
    /\ proc[p].pc = "o_file"
    /\ LET file == files[proc[p].path]
       IN  IF file = NoFile
           THEN proc' = [proc EXCEPT ![p] = Returned(OpenCall(p), "IoError")]
           ELSE proc' = [proc EXCEPT ![p] =
                           [@ EXCEPT !.pc = "o_map", !.link_file = file.ino,
                                     !.real_path = file.content]]
    /\ UNCHANGED <<overflow_checks, files, next_ino, maps>>

\* line 284: os_impl::open_mapping(&real_path)?
\* The collaborator attaches to the mapping the identifier names, or fails.
OpenMapping(p) ==
    /\ proc[p].pc = "o_map"
    /\ LET id == proc[p].real_path
       IN  \E out \in open_mapping(id) :
             IF out = "Ok"
             THEN proc' = [proc EXCEPT ![p] =
                        [@ EXCEPT !.pc = "o_hdr",
                                  !.os_data = [unique_id |-> id,
                                               map_ptr   |-> MapPtr(p),
                                               map_size  |-> maps[id].size],
                                  !.cur_ptr = MapPtr(p)]]
             ELSE proc' = [proc EXCEPT ![p] = Returned(OpenCall(p), "MappingError")]
    /\ UNCHANGED <<overflow_checks, files, next_ino, maps>>

\* isize::MAX, the most bytes one allocation may ask for
IsizeMax == (WordMod \div 2) - 1

\* cells of one GenericLock: uid, offset, length, lock_ptr, data_ptr and the
\* two words of the interface reference, lines 354-361
SizeOfGenericLock == 7

\* cells of one GenericEvent: uid and ptr, lines 198-201
SizeOfGenericEvent == 2

\* Vec::with_capacity(capacity) panics with "capacity overflow"
with_capacity_panics(capacity, elem_size) == capacity * elem_size > IsizeMax

\* values a read through a pointer outside the mapping may produce
StrayValues == {0, 1, WordMod - 1}

\* outcome of a read that kills the process
Killed == -1

\* A read through a pointer outside the mapping is undefined behaviour: the
\* process is killed, or the read produces some value.
ReadOutcomes(os_data, addr) ==
    IF InMapping(os_data, addr)
    THEN {maps[os_data.unique_id].mem[CellOf(os_data, addr) + 1]}
    ELSE {Killed} \cup StrayValues

\* lines 286-318: size check, read the MetaDataHeader, build map_conf,
\* check meta_size + size against the mapped size, compute user_ptr
OpenReadHeader(p) ==
    /\ proc[p].pc = "o_hdr"
    /\ LET os_data == proc[p].os_data
           mem     == maps[os_data.unique_id].mem
       IN  IF SizeOfMetaDataHeader > os_data.map_size
           THEN proc' = [proc EXCEPT ![p] = Returned(OpenCall(p), "TooSmall")]
           ELSE
           LET meta_size  == mem[1]
               user_size  == mem[2]
               num_locks  == mem[3]
               num_events == mem[4]
               map_conf   == [ owner      |-> FALSE,
                               link_path  |-> proc[p].path,
                               size       |-> user_size,
                               lock_data  |-> << >>,
                               event_data |-> << >>,
                               meta_size  |-> meta_size ]
           IN  IF \/ with_capacity_panics(num_locks, SizeOfGenericLock)
                  \/ with_capacity_panics(num_events, SizeOfGenericEvent)
               THEN proc' = [proc EXCEPT ![p] = Returned(OpenCall(p), "Panic")]
               ELSE IF overflow_checks /\ Overflows(meta_size, user_size)
               THEN proc' = [proc EXCEPT ![p] = Returned(OpenCall(p), "Panic")]
               ELSE IF os_data.map_size < WrapAdd(meta_size, user_size)
               THEN proc' = [proc EXCEPT ![p] = Returned(OpenCall(p), "TooSmall")]
               ELSE IF overflow_checks /\ Overflows(os_data.map_ptr, meta_size)
               THEN proc' = [proc EXCEPT ![p] = Returned(OpenCall(p), "Panic")]
               ELSE proc' = [proc EXCEPT ![p] =
                      [@ EXCEPT !.pc = "o_lock", !.conf = map_conf, !.i = 0,
                                !.num_locks = num_locks,
                                !.cur_ptr = WrapAdd(os_data.map_ptr, SizeOfMetaDataHeader),
                                !.user_ptr = WrapAdd(os_data.map_ptr, meta_size)]]
    /\ UNCHANGED <<overflow_checks, files, next_ino, maps>>

\* the GenericLock of lines 354-361 with its two pointers exchanged
OpenedLock_SwappedPtrs(lock_type, offset, length, cur_ptr, user_ptr) ==
    [ uid      |-> LockTypeAsU8(lock_type),
      offset   |-> offset,
      length   |-> length,
      lock_ptr |-> WrapAdd(user_ptr, offset),
      data_ptr |-> cur_ptr ]

\* lines 354-361: the GenericLock open() builds for an entry; cur_ptr is the
\* cursor after the LockHeader
OpenedLock(lock_type, offset, length, cur_ptr, user_ptr) ==
    [ uid      |-> LockTypeAsU8(lock_type),
      offset   |-> offset,
      length   |-> length,
      lock_ptr |-> cur_ptr,
      data_ptr |-> WrapAdd(user_ptr, offset) ]

\* lines 335-377, one turn of the loop over 0..num_locks
OpenLock(p) ==
    /\ proc[p].pc = "o_lock"
    /\ proc[p].i < proc[p].num_locks
    /\ LET os_data  == proc[p].os_data
           hdr_ptr  == proc[p].cur_ptr
           user_ptr == proc[p].user_ptr
           size     == proc[p].conf.size
           lock_ptr == WrapAdd(hdr_ptr, SizeOfLockHeader)
       IN  IF overflow_checks /\ Overflows(hdr_ptr, SizeOfLockHeader)
           THEN proc' = [proc EXCEPT ![p] = Returned(OpenCall(p), "Panic")]
           ELSE IF lock_ptr > user_ptr
           THEN proc' = [proc EXCEPT ![p] = Returned(OpenCall(p), "CorruptMetadata")]
           ELSE
           \E uid    \in ReadOutcomes(os_data, hdr_ptr),
              offset \in ReadOutcomes(os_data, WrapAdd(hdr_ptr, 1)),
              length \in ReadOutcomes(os_data, WrapAdd(hdr_ptr, 2)),
              init   \in lock_init(CreateNewAtOpen) :
             IF Killed \in {uid, offset, length}
             THEN proc' = [proc EXCEPT ![p] = Returned(OpenCall(p), "Segv")]
             ELSE
             LET lock_type == lock_uid_to_type(uid)
                 foot      == LockImplSizeOf(lock_type)
                 end_ptr   == WrapAdd(lock_ptr, foot)
                 new_lock  == OpenedLock(lock_type, offset, length, lock_ptr, user_ptr)
             IN  IF lock_type = "Unknown"
                 THEN proc' = [proc EXCEPT ![p] = Returned(OpenCall(p), "UnknownLockKind")]
                 ELSE IF overflow_checks /\ valid_lock_range_overflows(size, offset, length)
                 THEN proc' = [proc EXCEPT ![p] = Returned(OpenCall(p), "Panic")]
                 ELSE IF ~valid_lock_range(size, offset, length)
                 THEN proc' = [proc EXCEPT ![p] = Returned(OpenCall(p), "InvalidRange")]
                 ELSE IF overflow_checks /\ (Overflows(user_ptr, offset) \/ Overflows(lock_ptr, foot))
                 THEN proc' = [proc EXCEPT ![p] = Returned(OpenCall(p), "Panic")]
                 ELSE IF end_ptr > user_ptr
                 THEN proc' = [proc EXCEPT ![p] = Returned(OpenCall(p), "CorruptMetadata")]
                 ELSE IF init = "InitError"
                 THEN proc' = [proc EXCEPT ![p] = Returned(OpenCall(p), "InitError")]
                 ELSE proc' = [proc EXCEPT ![p] =
                        [@ EXCEPT !.i = @ + 1, !.cur_ptr = end_ptr,
                                  !.inits = Append(@,
                                      [cell |-> CellOf(os_data, lock_ptr),
                                       create_new |-> CreateNewAtOpen]),
                                  !.conf = [@ EXCEPT !.lock_data = Append(@, new_lock)]]]
    /\ IF proc'[p].pc = "o_lock" /\ proc'[p].i > proc[p].i
       THEN LET lock == proc'[p].conf.lock_data[proc'[p].i]
            IN  maps' = [maps EXCEPT ![proc[p].os_data.unique_id] =
                           Initialized(@, CellOf(proc[p].os_data, lock.lock_ptr),
                                       LockImplSizeOf(lock_uid_to_type(lock.uid)),
                                       CreateNewAtOpen)]
       ELSE UNCHANGED maps
    /\ UNCHANGED <<overflow_checks, files, next_ino>>

\* lines 379-387: the loop over 0..num_events; ok is FALSE when a turn
\* finds cur_ptr >= user_ptr, else cur_ptr is the cursor after the loop
RECURSIVE EventLoop(_, _, _)
EventLoop(cur_ptr, user_ptr, num_events) ==
    IF num_events = 0 THEN [ok |-> TRUE, cur_ptr |-> cur_ptr]
    ELSE IF cur_ptr >= user_ptr THEN [ok |-> FALSE, cur_ptr |-> cur_ptr]
    ELSE EventLoop(cur_ptr + SizeOfEventHeader, user_ptr, num_events - 1)

\* the check that ends open, lines 389-391
EndsAtUserData(cur_ptr, user_ptr) == cur_ptr = user_ptr

\* lines 379-398: walk the event headers, check the cursor, return the SharedMem
OpenFinish(p) ==
    /\ proc[p].pc = "o_lock"
    /\ proc[p].i >= proc[p].num_locks
    /\ LET os_data == proc[p].os_data
           num_events == maps[os_data.unique_id].mem[SizeOfMetaDataHeader]
           events  == EventLoop(proc[p].cur_ptr, proc[p].user_ptr, num_events)
           cur_ptr == events.cur_ptr
       IN  IF ~events.ok \/ ~EndsAtUserData(cur_ptr, proc[p].user_ptr)
           THEN proc' = [proc EXCEPT ![p] = Returned(OpenCall(p), "CorruptMetadata")]
           ELSE proc' = [proc EXCEPT ![p] =
                           [@ EXCEPT !.pc = "live", !.how = "open", !.cur_ptr = cur_ptr,
                                     !.result = "Ok", !.call = OpenCall(p)]]
    /\ UNCHANGED <<overflow_checks, files, next_ino, maps>>

----------------------------------------------------------------------------
(* Drop for SharedMem, lib.rs 247-262 *)

\* drop() without the test of self.conf.owner of line 256
drop_AnyHandle(conf) ==
    IF files[conf.link_path] # NoFile
    THEN [files EXCEPT ![conf.link_path] = NoFile]
    ELSE files

\* the file system after drop(): the link file is removed when this handle
\* owns it and it is still there; an error of remove_file is ignored
drop(conf) ==
    IF conf.owner /\ files[conf.link_path] # NoFile
    THEN [files EXCEPT ![conf.link_path] = NoFile]
    ELSE files

\* a drop that also clears the MetaDataHeader of the mapping of the handle
Drop_WipesHeader(p) ==
    /\ proc[p].pc = "live"
    /\ files' = drop(proc[p].conf)
    /\ maps' = [maps EXCEPT ![proc[p].os_data.unique_id].mem =
                  WriteCells(@, 0, [k \in 1..SizeOfMetaDataHeader |-> 0])]
    /\ proc' = [proc EXCEPT ![p] =
                  Returned([op |-> "drop", path |-> proc[p].conf.link_path,
                            how |-> proc[p].how,
                            removed |-> files' # files], "Ok")]
    /\ UNCHANGED <<overflow_checks, next_ino>>

Drop(p) ==
    /\ proc[p].pc = "live"
    /\ files' = drop(proc[p].conf)
    /\ proc' = [proc EXCEPT ![p] =
                  Returned([op |-> "drop", path |-> proc[p].conf.link_path,
                            how |-> proc[p].how,
                            removed |-> files' # files], "Ok")]
    /\ UNCHANGED <<overflow_checks, next_ino, maps>>

\* p holds a SharedMem; it got it from create(); it got it from open()
Live(p) == proc[p].pc = "live"

Owner(p) == Live(p) /\ proc[p].how = "create"

Opener(p) == Live(p) /\ proc[p].how = "open"

\* someone outside the library removes a link file
ExternalDelete(path) ==
    /\ files[path] # NoFile
    /\ files' = [files EXCEPT ![path] = NoFile]
    /\ UNCHANGED <<overflow_checks, next_ino, maps, proc>>

----------------------------------------------------------------------------
(* Exclusive acquisition through a handle.  The native primitives are not
   part of the sources: acquireExclusive / releaseExclusive follow the
   LockCapability of the specification, on the cells lock_ptr points to. *)

\* value of the first cell of a constructed primitive that is held
PrimHeld == 2

\* the cell of its mapping that lock k of the handle of p points to
PrimCell(p, k) == CellOf(proc[p].os_data, proc[p].conf.lock_data[k].lock_ptr)

\* lock k of the handle of p points to a constructed primitive
PointsToPrimitive(p, k) ==
    /\ InMapping(proc[p].os_data, proc[p].conf.lock_data[k].lock_ptr)
    /\ maps[proc[p].os_data.unique_id].mem[PrimCell(p, k) + 1] \in {PrimLive, PrimHeld}

\* acquireExclusive(descriptor): blocks until the primitive is free and takes
\* it.  On cells that hold no constructed primitive the behaviour is
\* undefined: the call may return as if the lock were granted.
AcquireExclusive(p, k) ==
    /\ Live(p)
    /\ k \in 1..Len(proc[p].conf.lock_data)
    /\ k \notin proc[p].held
    /\ LET id == proc[p].os_data.unique_id
       IN  IF PointsToPrimitive(p, k)
           THEN /\ maps[id].mem[PrimCell(p, k) + 1] = PrimLive
                /\ maps' = [maps EXCEPT ![id].mem[PrimCell(p, k) + 1] = PrimHeld]
           ELSE UNCHANGED maps
    /\ proc' = [proc EXCEPT ![p].held = @ \cup {k}]
    /\ UNCHANGED <<overflow_checks, files, next_ino>>

\* releaseExclusive(descriptor), at the end of the scope of the guard
ReleaseExclusive(p, k) ==
    /\ Live(p)
    /\ k \in proc[p].held
    /\ LET id == proc[p].os_data.unique_id
       IN  IF PointsToPrimitive(p, k) /\ maps[id].mem[PrimCell(p, k) + 1] = PrimHeld
           THEN maps' = [maps EXCEPT ![id].mem[PrimCell(p, k) + 1] = PrimLive]
           ELSE UNCHANGED maps
    /\ proc' = [proc EXCEPT ![p].held = @ \ {k}]
    /\ UNCHANGED <<overflow_checks, files, next_ino>>

----------------------------------------------------------------------------
(* Spec: processes build, create, open and drop regions *)

\* processes that build and create regions, and processes that open them
Creators == {"p1", "p2"}
Openers == {"p3"}

\* user sizes the builders of this specification ask for
UserSizes == {2}

\* the lock lists they configure: none, a mutex over the whole user region,
\* that mutex and a read-write lock over the last byte, in both orders
LockLists(size) ==
    LET m == [lock_type |-> "Mutex", offset |-> 0, length |-> size]
        r == [lock_type |-> "RwLock", offset |-> size - 1, length |-> 1]
    IN  { << >>, << m >>, << m, r >>, << r, m >> }

Init ==
    /\ overflow_checks = FALSE
    /\ files = [f \in Paths |-> NoFile]
    /\ next_ino = 1
    /\ maps = [id \in Ids |-> NoMap]
    /\ proc = [p \in Procs |-> IdleProc]

\* every process runs one client program: a creator builds one
\* configuration, creates the region and drops it; an opener opens one link
\* and drops the handle
Fresh(p) == proc[p].call.op = "none"

NewConf ==
    \E p \in Creators, link \in Paths, size \in UserSizes :
        Fresh(p) /\ New(p, link, size)

\* the next add_lock of a builder that is on its way to one of the lists
ConfAddLock ==
    \E p \in Creators :
        /\ proc[p].pc = "conf"
        /\ \E list \in LockLists(proc[p].conf.size) :
              LET n == Len(proc[p].conf.lock_data)
              IN  /\ n < Len(list)
                  /\ \A k \in 1..n :
                        /\ proc[p].conf.lock_data[k].uid = LockTypeAsU8(list[k].lock_type)
                        /\ proc[p].conf.lock_data[k].offset = list[k].offset
                  /\ AddLock(p, list[n + 1].lock_type, list[n + 1].offset,
                             list[n + 1].length)

Create ==
    \E p \in Creators :
        \/ CreateCheckLink(p)
        \/ CreateLinkFile(p)
        \/ CreateMapping(p)
        \/ CreateWriteHeader(p)
        \/ CreateInitLock(p)
        \/ CreateWriteLink(p)

Open ==
    \E p \in Openers :
        \/ \E link \in Paths : Fresh(p) /\ OpenCheckLink(p, link)
        \/ OpenReadLink(p)
        \/ OpenMapping(p)
        \/ OpenReadHeader(p)
        \/ OpenLock(p)
        \/ OpenFinish(p)

DropHandle == \E p \in Procs : Drop(p)

Unlink == \E path \in Paths : ExternalDelete(path)

Next == NewConf \/ ConfAddLock \/ Create \/ Open \/ DropHandle \/ Unlink

Spec == Init /\ [][Next]_vars

----------------------------------------------------------------------------
(* SpecParse: open() on a link that names a mapping of any content *)

\* smallest count Vec::with_capacity refuses for GenericLock elements
CapacityOverflow == (IsizeMax \div SizeOfGenericLock) + 1

\* header fields of the mappings, small and large machine words
ParseMetaSizes == {0, 4, 8, 9, 13, WordMod - 4}
ParseUserSizes == {0, 2, WordMod - 4, WordMod - 1}
ParseNumLocks == {0, 1, 2, CapacityOverflow, WordMod - 1}
ParseNumEvents == {0, 1, WordMod - 1}

\* the cells after the MetaDataHeader: two lock headers, each followed by
\* the cells of a primitive of its kind (one cell when the tag is unknown)
ParseEntry(uid, offset, length) ==
    << uid, offset, length >>
    \o [k \in 1..(IF uid = 1 THEN LockImplSizeOf("RwLock") ELSE LockImplSizeOf("Mutex"))
          |-> PrimLive]

ParseEntries ==
    { ParseEntry(u1, o1, l1) \o ParseEntry(u2, 0, 2) :
        u1 \in {0, 1, 2}, o1 \in {0, 1, WordMod - 1}, l1 \in {1, WordMod - 1},
        u2 \in {0, 2} }

\* mapped sizes: less than a header, and two sizes that hold one or two entries
ParseMapSizes == {3, 10, 16}

ParseMem(header, entries, size) ==
    [c \in 1..size |->
        IF c <= Len(header) THEN header[c]
        ELSE IF c <= Len(header) + Len(entries) THEN entries[c - Len(header)]
        ELSE 0]

InitParse ==
    /\ overflow_checks \in BOOLEAN
    /\ files = [f \in Paths |->
                  IF f = "a.link"
                  THEN [ino |-> 1, content |-> some_str, creators |-> {}]
                  ELSE NoFile]
    /\ next_ino = 2
    /\ \E meta_size \in ParseMetaSizes, user_size \in ParseUserSizes,
          num_locks \in ParseNumLocks, num_events \in ParseNumEvents,
          entries \in ParseEntries, size \in ParseMapSizes :
          maps = [id \in Ids |->
                    IF id = some_str
                    THEN [ size |-> size, tampered |-> FALSE, constructed |-> << >>,
                           mem |-> ParseMem(<<meta_size, user_size, num_locks, num_events>>,
                                            entries, size) ]
                    ELSE NoMap]
    /\ proc = [p \in Procs |-> IdleProc]

NextParse == Open

SpecParse == InitParse /\ [][NextParse]_vars

----------------------------------------------------------------------------
(* SpecCorrupt: a region written by create() is changed, then opened *)

\* the stored num_locks becomes another value
TamperNumLocks(id, v) ==
    /\ maps[id] # NoMap
    /\ ~maps[id].tampered
    /\ \E q \in Procs : Owner(q) /\ proc[q].os_data.unique_id = id
    /\ v # maps[id].mem[3]
    /\ maps' = [maps EXCEPT ![id] = [@ EXCEPT !.mem[3] = v, !.tampered = TRUE]]
    /\ UNCHANGED <<overflow_checks, files, next_ino, proc>>

\* the mapping is presented one cell shorter than create() made it
TamperMapSize(id) ==
    /\ maps[id] # NoMap
    /\ ~maps[id].tampered
    /\ \E q \in Procs : Owner(q) /\ proc[q].os_data.unique_id = id
    /\ maps' = [maps EXCEPT ![id] =
                  [ size |-> @.size - 1, tampered |-> TRUE,
                    constructed |-> @.constructed,
                    mem |-> [c \in 1..(@.size - 1) |-> @.mem[c]] ]]
    /\ UNCHANGED <<overflow_checks, files, next_ino, proc>>

Tamper ==
    \E id \in Ids :
        \/ \E v \in Word : TamperNumLocks(id, v)
        \/ TamperMapSize(id)

InitCorrupt ==
    /\ overflow_checks \in BOOLEAN
    /\ files = [f \in Paths |-> NoFile]
    /\ next_ino = 1
    /\ maps = [id \in Ids |-> NoMap]
    /\ proc = [p \in Procs |-> IdleProc]

CorruptNew == \E size \in UserSizes : Fresh("p1") /\ New("p1", "a.link", size)

CorruptAddLock == ConfAddLock /\ proc["p1"].pc = "conf"

CorruptCreate == Create /\ proc["p2"].pc = "idle"

CorruptOpen == Open /\ \E id \in Ids : maps[id].tampered

NextCorrupt == CorruptNew \/ CorruptAddLock \/ CorruptCreate \/ Tamper \/ CorruptOpen

SpecCorrupt == InitCorrupt /\ [][NextCorrupt]_vars

----------------------------------------------------------------------------
(* SpecRange: a builder of any user size, holding one of a few lock lists,
   is given one add_lock with any offset and length *)

\* lock lists the builder may already hold; a list is used with the user
\* sizes add_lock accepts it for
PriorLocks ==
    { << >>,
      << NewGenericLock("Mutex", 0, 1) >>,
      << NewGenericLock("RwLock", 1, 1), NewGenericLock("Mutex", 0, 2) >> }

RECURSIVE WithLocks(_, _)
WithLocks(conf, locks) ==
    IF locks = << >> THEN conf
    ELSE WithLocks(add_lock(conf, lock_uid_to_type(Head(locks).uid),
                            Head(locks).offset, Head(locks).length),
                   Tail(locks))

InitRange ==
    /\ overflow_checks \in BOOLEAN
    /\ files = [f \in Paths |-> NoFile]
    /\ next_ino = 1
    /\ maps = [id \in Ids |-> NoMap]
    /\ \E size \in Word, locks \in PriorLocks :
          /\ \A k \in 1..Len(locks) :
                /\ ~valid_lock_range_overflows(size, locks[k].offset, locks[k].length)
                /\ valid_lock_range(size, locks[k].offset, locks[k].length)
          /\ proc = [p \in Procs |->
                       IF p = "p1"
                       THEN [IdleProc EXCEPT !.pc = "conf",
                                             !.conf = WithLocks(new("a.link", size), locks),
                                             !.call = [op |-> "new"], !.result = "Ok"]
                       ELSE IdleProc]

RangeAddLock ==
    /\ proc["p1"].call.op = "new"
    /\ \E lock_type \in LockType, offset \in Word, length \in Word :
          AddLock("p1", lock_type, offset, length)

NextRange == RangeAddLock

SpecRange == InitRange /\ [][NextRange]_vars

----------------------------------------------------------------------------
(* SpecRegion: one process builds a configuration and creates a region,
   two processes open it through its link, at any time.
   SpecLock: in addition, the three take and give back the locks of the
   region through their handles. *)

LockOpeners == {"p2", "p3"}

InitLock ==
    /\ overflow_checks = FALSE
    /\ files = [f \in Paths |-> NoFile]
    /\ next_ino = 1
    /\ maps = [id \in Ids |-> NoMap]
    /\ proc = [p \in Procs |-> IdleProc]

LockNew == \E size \in UserSizes : Fresh("p1") /\ New("p1", "a.link", size)

LockAddLock == ConfAddLock /\ proc["p1"].pc = "conf"

LockOpen ==
    \E p \in LockOpeners :
        \/ Fresh(p) /\ OpenCheckLink(p, "a.link")
        \/ OpenReadLink(p)
        \/ OpenMapping(p)
        \/ OpenReadHeader(p)
        \/ OpenLock(p)
        \/ OpenFinish(p)

LockAcquire == \E p \in Procs, k \in 1..2 : AcquireExclusive(p, k)

LockRelease == \E p \in Procs, k \in 1..2 : ReleaseExclusive(p, k)

NextRegion == LockNew \/ LockAddLock \/ Create \/ LockOpen

SpecRegion == InitLock /\ [][NextRegion]_vars

NextLock == NextRegion \/ LockAcquire \/ LockRelease

SpecLock == InitLock /\ [][NextLock]_vars

----------------------------------------------------------------------------
(* SpecSizes: one process builds a configuration of a small or a large user
   size and creates the region, in a build of either kind *)

\* user sizes: small ones, and the largest machine words
SizesUserSizes == {1, 2, WordMod - 4, WordMod - 1}

InitSizes ==
    /\ overflow_checks \in BOOLEAN
    /\ files = [f \in Paths |-> NoFile]
    /\ next_ino = 1
    /\ maps = [id \in Ids |-> NoMap]
    /\ proc = [p \in Procs |-> IdleProc]

SizesNew == \E size \in SizesUserSizes : Fresh("p1") /\ New("p1", "a.link", size)

NextSizes == SizesNew \/ ConfAddLock \/ Create

SpecSizes == InitSizes /\ [][NextSizes]_vars

----------------------------------------------------------------------------
(* SpecSimple: two processes each make a region with the one-call
   constructor SharedMem::create, of a user size of zero or more, and drop
   it *)

SimpleUserSizes == {0, 1, 2}

InitSimple ==
    /\ overflow_checks \in BOOLEAN
    /\ files = [f \in Paths |-> NoFile]
    /\ next_ino = 1
    /\ maps = [id \in Ids |-> NoMap]
    /\ proc = [p \in Procs |-> IdleProc]

SimpleCreate ==
    \E p \in Creators, link \in Paths, lock_type \in LockType,
       size \in SimpleUserSizes :
        Fresh(p) /\ SharedMem_create(p, link, lock_type, size)

NextSimple == SimpleCreate \/ Create \/ DropHandle

SpecSimple == InitSimple /\ [][NextSimple]_vars

----------------------------------------------------------------------------
(* Claims on add_lock, checked under SpecRange *)

\* the range invariant of the data model, in unbounded arithmetic
RangeInvariant(size, offset, length) == offset < size /\ offset + length <= size

\* C1: whatever locks the builder holds, add_lock(kind, offset, length)
\* succeeds if and only if offset < userByteSize and offset + length <=
\* userByteSize, and every other input fails with the invalid-range error.
C1_AddLockIffRangeValid ==
    \A p \in Procs :
        proc[p].call.op = "add_lock" =>
            LET c == proc[p].call
            IN  IF RangeInvariant(c.size, c.offset, c.length)
                THEN proc[p].result = "Ok"
                ELSE proc[p].result = "InvalidRange"

----------------------------------------------------------------------------
(* Claims on create, open and drop, checked under Spec *)

\* what a handle says of its region: the sizes and, lock by lock, the kind
\* tag, the offset and the length
Description(conf) ==
    [ size      |-> conf.size,
      meta_size |-> conf.meta_size,
      locks     |-> [k \in 1..Len(conf.lock_data) |->
                       << conf.lock_data[k].uid, conf.lock_data[k].offset,
                          conf.lock_data[k].length >>] ]

\* p holds a handle opened through the link file that q, and q alone, made
\* and wrote, and q still holds the handle its create() returned
OpenedLinkOf(p, q) ==
    /\ Opener(p)
    /\ Owner(q)
    /\ proc[p].conf.link_path = proc[q].conf.link_path
    /\ proc[p].link_file = proc[q].link_file
    /\ files[proc[q].conf.link_path].ino = proc[q].link_file
    /\ files[proc[q].conf.link_path].creators = {q}

\* C2: a region produced by create() and then opened through the same link
\* file yields a handle with the creator's userByteSize, metadataByteSize
\* and lock list: same count, same kind tag, offset and length, same order.
C2_RoundTrip ==
    \A p \in Procs, q \in Procs :
        OpenedLinkOf(p, q) => Description(proc[p].conf) = Description(proc[q].conf)

\* p takes the first step of create() in this step
CallsCreate(p) ==
    /\ proc[p].pc = "conf"
    /\ proc'[p].pc = "c_link" \/ proc'[p].call.op = "create"

\* C3: create() on a link path that names a file, while the owner of that
\* file holds its handle, fails with the already-exists error and changes
\* nothing: not the link files, not the mappings, not the owner's handle.
C3_SecondCreateFails ==
    [][ \A p \in Procs, q \in Procs :
          ( /\ CallsCreate(p)
            /\ Owner(q)
            /\ proc[q].conf.link_path = proc[p].conf.link_path
            /\ files[proc[p].conf.link_path] # NoFile )
          => /\ proc'[p].result = "AlreadyExists"
             /\ proc'[p].pc = "idle"
             /\ files' = files
             /\ maps' = maps
             /\ proc'[q] = proc[q] ]_vars

\* a second create has failed on the link of a live owner whose link file
\* holds what the owner wrote
C3_Witness ==
    \E p \in Procs, q \in Procs :
        /\ proc[p].result = "AlreadyExists"
        /\ Owner(q)
        /\ proc[q].conf.link_path = proc[p].call.path
        /\ files[proc[p].call.path].content = some_str

\* C4: of the processes that call create() with one link path, at most one
\* gets past the creation of the link file and becomes its owner.
C4_OneCreatorPerLink ==
    \A path \in Paths : Cardinality(files[path].creators) <= 1

\* p ends its handle in this step
Drops(p) == Live(p) /\ ~Live(p)'

\* C5: dropping a handle open() returned never removes a link file;
\* dropping the handle create() returned leaves no file at its link path,
\* and completes without failure also when the file was already gone; the
\* owner flag is TRUE exactly for the handles create() returned.
C5_Teardown ==
    /\ [][ \A p \in Procs :
             Drops(p) =>
               /\ proc'[p].result = "Ok"
               /\ proc[p].how = "open" => files' = files
               /\ proc[p].how = "create" =>
                    /\ files'[proc[p].conf.link_path] = NoFile
                    /\ \A path \in Paths \ {proc[p].conf.link_path} :
                          files'[path] = files[path] ]_vars
    /\ [](\A p \in Procs : Live(p) => (proc[p].conf.owner <=> proc[p].how = "create"))

\* an owner has dropped its handle after its link file was deleted, an
\* opener has dropped its handle while the link file was there
C5_Witness ==
    \E p \in Procs, q \in Procs :
        /\ proc[p].call.op = "drop" /\ proc[p].call.how = "create"
        /\ ~proc[p].call.removed
        /\ proc[q].call.op = "drop" /\ proc[q].call.how = "open"
        /\ files[proc[q].call.path] # NoFile

\* C6: after a successful create() the link file holds the identifier the
\* OS gave the mapping, the one the handle reports as its unique id.
C6_LinkHoldsUniqueId ==
    \A p \in Procs :
        ( /\ Owner(p)
          /\ files[proc[p].conf.link_path].ino = proc[p].link_file
          /\ files[proc[p].conf.link_path].creators = {p} )
        => files[proc[p].conf.link_path].content = proc[p].os_data.unique_id

----------------------------------------------------------------------------
(* Claims on open() of a mapping of any content, checked under SpecParse
   and SpecCorrupt *)

\* What the layout of section 4.4 makes of a mapping, in unbounded
\* arithmetic and in cells from the base of the mapping: the error of the
\* first step that fails, or "Ok".  Failures of the collaborators are left out.
RECURSIVE LayoutLocks(_, _, _)
LayoutLocks(mem, cur, k) ==
    LET meta_size == mem[1]
        user_size == mem[2]
    IN  IF k = mem[3]
        THEN IF cur + mem[4] * SizeOfEventHeader = meta_size
             THEN "Ok" ELSE "CorruptMetadata"
        ELSE IF cur + SizeOfLockHeader > meta_size
        THEN "CorruptMetadata"
        ELSE LET uid    == mem[cur + 1]
                 offset == mem[cur + 2]
                 length == mem[cur + 3]
                 kind   == lock_uid_to_type(uid)
             IN  IF kind = "Unknown" THEN "UnknownLockKind"
                 ELSE IF ~RangeInvariant(user_size, offset, length) THEN "InvalidRange"
                 ELSE IF cur + SizeOfLockHeader + LockImplSizeOf(kind) > meta_size
                 THEN "CorruptMetadata"
                 ELSE LayoutLocks(mem, cur + SizeOfLockHeader + LockImplSizeOf(kind), k + 1)

Layout(map) ==
    IF map.size < SizeOfMetaDataHeader THEN "TooSmall"
    ELSE IF map.mem[1] + map.mem[2] > map.size THEN "TooSmall"
    ELSE LayoutLocks(map.mem, SizeOfMetaDataHeader, 0)

\* The cells taken by the entries of a lock list: for each lock a LockHeader
\* and the footprint of its kind.
RECURSIVE EntriesSize(_)
EntriesSize(locks) ==
    IF locks = << >> THEN 0
    ELSE SizeOfLockHeader
         + LockImplSizeOf(lock_uid_to_type(Head(locks).uid))
         + EntriesSize(Tail(locks))

\* Vec::with_capacity takes the stored counts of the mapping
CountsFit(map) ==
    \/ map.size < SizeOfMetaDataHeader
    \/ /\ ~with_capacity_panics(map.mem[3], SizeOfGenericLock)
       /\ ~with_capacity_panics(map.mem[4], SizeOfGenericEvent)

\* failures of the file system, of open_mapping and of a primitive's attach
CollaboratorFailures == {"NotFound", "IoError", "MappingError", "InitError"}

\* open() of p has ended, and not by a failure of a collaborator
Parsed(p) ==
    /\ proc[p].call.op = "open"
    /\ proc[p].pc # "o_file" /\ proc[p].pc # "o_map" /\ proc[p].pc # "o_hdr"
    /\ proc[p].pc # "o_lock"
    /\ proc[p].result \notin CollaboratorFailures

\* the mapping the link of this specification names
Mapped == maps[some_str]

\* C7: when the stored lockCount of a region written by create() is changed
\* to any other value, or the mapping is presented one byte shorter than
\* metadataByteSize + userByteSize, open() fails with the too-small or the
\* corrupt-metadata error: it returns no handle and ends in no other way.
C7_TamperedRegionRejected ==
    \A p \in Procs :
        (Parsed(p) /\ Mapped.tampered)
        => proc[p].result \in {"TooSmall", "CorruptMetadata"}

\* C8: open() returns a handle only if the cursor after the header, the
\* lockCount lock entries and the eventCount event headers is exactly
\* metadataByteSize, and fails with the corrupt-metadata error for every
\* header where that sum is smaller or larger.
C8_CursorExact ==
    \A p \in Procs :
        Parsed(p) =>
            /\ proc[p].result = "Ok" =>
                  /\ Len(proc[p].conf.lock_data) = Mapped.mem[3]
                  /\ SizeOfMetaDataHeader + EntriesSize(proc[p].conf.lock_data)
                       + Mapped.mem[4] * SizeOfEventHeader = Mapped.mem[1]
            /\ Layout(Mapped) = "CorruptMetadata" => proc[p].result = "CorruptMetadata"

\* C9: open() fails with the too-small error when the mapped size is less
\* than the header size and, for all values of the stored metadataByteSize
\* and userByteSize, when their sum exceeds the mapped size; so every handle
\* it returns has metadataByteSize + userByteSize <= totalMappedBytes.
\* (Stated for the headers whose counts Vec::with_capacity takes.)
C9_TooSmallRejected ==
    \A p \in Procs :
        (Parsed(p) /\ CountsFit(Mapped)) =>
            /\ Layout(Mapped) = "TooSmall" => proc[p].result = "TooSmall"
            /\ proc[p].result = "Ok" =>
                  proc[p].conf.meta_size + proc[p].conf.size <= proc[p].os_data.map_size

\* C10: open() returns a handle only if every one of the lockCount entries
\* has a recognized tag, a valid range and fits before the user region; the
\* first entry that has not makes open() fail there with the error of that
\* fault, and no handle is returned.
\* (Stated for the headers that pass the size checks and whose counts
\* Vec::with_capacity takes.)
C10_AllOrNothing ==
    \A p \in Procs :
        (Parsed(p) /\ CountsFit(Mapped) /\ Layout(Mapped) # "TooSmall") =>
            /\ proc[p].result = "Ok" => Layout(Mapped) = "Ok"
            /\ Layout(Mapped) \in {"UnknownLockKind", "InvalidRange", "CorruptMetadata"}
                  => proc[p].result = Layout(Mapped)

----------------------------------------------------------------------------
(* Claims on the locks of a region held through several handles, checked
   under SpecLock *)

\* the processes that hold lock k of the region id through their handles
HoldersOf(id, k) ==
    { p \in Procs : Live(p) /\ proc[p].os_data.unique_id = id /\ k \in proc[p].held }

\* C11: exclusive acquisitions of one lock of a region through the handle
\* of its creator and the handles of its openers never overlap: at no time
\* do two handles hold the same lock.
C11_MutualExclusion ==
    \A id \in Ids, k \in 1..2 : Cardinality(HoldersOf(id, k)) <= 1

\* one handle holds lock k while another handle of the region, whose lock k
\* points to the same held primitive, waits for it
C11_Witness ==
    \E p \in Procs, q \in Procs, k \in 1..2 :
        /\ p # q /\ Owner(p) /\ Opener(q)
        /\ proc[p].os_data.unique_id = proc[q].os_data.unique_id
        /\ k \in proc[q].held /\ k \notin proc[p].held
        /\ PrimCell(p, k) = PrimCell(q, k)
        /\ maps[proc[p].os_data.unique_id].mem[PrimCell(p, k) + 1] = PrimHeld

----------------------------------------------------------------------------
(* Claims on the addresses open() and create() use, checked under
   SpecParse, SpecSizes and SpecRegion *)

\* open() of p has passed the test of line 340 and reads the LockHeader at
\* its cursor next
ReadsLockHeader(p) ==
    /\ proc[p].pc = "o_lock"
    /\ proc[p].i < proc[p].num_locks
    /\ ~(overflow_checks /\ Overflows(proc[p].cur_ptr, SizeOfLockHeader))
    /\ WrapAdd(proc[p].cur_ptr, SizeOfLockHeader) <= proc[p].user_ptr

\* the address lies in the metadata of the mapping of p: before the user
\* region the header declares, and inside the mapped bytes
InMetadata(p, addr) ==
    /\ CellOf(proc[p].os_data, addr) < proc[p].conf.meta_size
    /\ InMapping(proc[p].os_data, addr)

\* open() of p has read the MetaDataHeader and passed the size checks
OpenParses(p) == proc[p].pc = "o_lock" \/ Opener(p)

\* C12: whatever the mapped bytes hold, the metadata open() walks lies
\* inside the mapping, and every LockHeader field open() reads and every
\* primitive it attaches to lies inside the metadata: before the user
\* region and before the end of the mapping.
C12_OpenStaysInBounds ==
    \A p \in Procs :
        /\ OpenParses(p) => proc[p].conf.meta_size <= proc[p].os_data.map_size
        /\ ReadsLockHeader(p) =>
              \A k \in 0..(SizeOfLockHeader - 1) :
                  InMetadata(p, WrapAdd(proc[p].cur_ptr, k))
        /\ OpenParses(p) =>
              \A n \in 1..Len(proc[p].conf.lock_data) :
                  LET lock == proc[p].conf.lock_data[n]
                  IN  \A k \in 0..(LockImplSizeOf(lock_uid_to_type(lock.uid)) - 1) :
                          InMetadata(p, WrapAdd(lock.lock_ptr, k))

\* create() of p has got its mapping
HasMapping(p) == proc[p].pc \in {"c_hdr", "c_lock"} \/ Owner(p)

\* create() of p has written the MetaDataHeader and every lock entry
AllWritten(p) ==
    \/ proc[p].pc = "c_lock" /\ proc[p].i > Len(proc[p].conf.lock_data)
    \/ Owner(p)

\* C13: after new() and any add_lock calls metadataByteSize is the header
\* size plus, for every lock, the entry header size and the footprint of
\* its kind; create() asks for a mapping of exactly metadataByteSize +
\* userByteSize; and when it has written the header and all lock entries
\* its cursor is base + metadataByteSize.
C13_MetadataAccounting ==
    \A p \in Procs :
        /\ proc[p].pc = "conf" =>
              proc[p].conf.meta_size
                  = SizeOfMetaDataHeader + EntriesSize(proc[p].conf.lock_data)
        /\ proc[p].call.op = "create" => proc[p].result # "Panic"
        /\ HasMapping(p) =>
              /\ proc[p].os_data.map_size = proc[p].conf.meta_size + proc[p].conf.size
              /\ maps[proc[p].os_data.unique_id].size
                    = proc[p].conf.meta_size + proc[p].conf.size
        /\ AllWritten(p) =>
              proc[p].cur_ptr = proc[p].os_data.map_ptr + proc[p].conf.meta_size

\* the metadata create() writes for a configuration whose primitives are
\* free: the MetaDataHeader, then for each lock its LockHeader and the cells
\* of its primitive
RECURSIVE EntriesOf(_)
EntriesOf(locks) ==
    IF locks = << >> THEN << >>
    ELSE LockHeaderOf(Head(locks))
         \o [k \in 1..LockImplSizeOf(lock_uid_to_type(Head(locks).uid)) |-> PrimLive]
         \o EntriesOf(Tail(locks))

MetadataOf(conf) == MetaHeaderOf(conf) \o EntriesOf(conf.lock_data)

\* C14: for every lock of a region made by one create(), the handle of the
\* creator and the handles of the openers have lock_ptr and data_ptr at the
\* same offsets from their own base: lock_ptr right after the LockHeader of
\* the lock, data_ptr at metadataByteSize + offset; and the shared bytes
\* hold the configuration only, the same whatever the base of the creator.
C14_AddressAgreement ==
    /\ \A p \in Procs :
          Live(p) =>
            \A n \in 1..Len(proc[p].conf.lock_data) :
                LET lock == proc[p].conf.lock_data[n]
                IN  /\ CellOf(proc[p].os_data, lock.lock_ptr)
                          = SizeOfMetaDataHeader
                            + EntriesSize(SubSeq(proc[p].conf.lock_data, 1, n - 1))
                            + SizeOfLockHeader
                    /\ CellOf(proc[p].os_data, lock.data_ptr)
                          = proc[p].conf.meta_size + lock.offset
    /\ \A p \in Procs, q \in Procs :
          (Live(p) /\ Live(q) /\ proc[p].os_data.unique_id = proc[q].os_data.unique_id) =>
            \A n \in 1..Len(proc[p].conf.lock_data) :
                n <= Len(proc[q].conf.lock_data) =>
                    /\ PrimCell(p, n) = PrimCell(q, n)
                    /\ CellOf(proc[p].os_data, proc[p].conf.lock_data[n].data_ptr)
                          = CellOf(proc[q].os_data, proc[q].conf.lock_data[n].data_ptr)
    /\ \A p \in Procs :
          Owner(p) =>
            SubSeq(maps[proc[p].os_data.unique_id].mem, 1, proc[p].conf.meta_size)
                = MetadataOf(proc[p].conf)

\* a creator and an opener, mapped at different bases, hold handles of one
\* region of two locks, the second of them with an offset
C14_Witness ==
    \E p \in Procs, q \in Procs :
        /\ Owner(p) /\ Opener(q)
        /\ proc[p].os_data.unique_id = proc[q].os_data.unique_id
        /\ proc[p].os_data.map_ptr # proc[q].os_data.map_ptr
        /\ Len(proc[p].conf.lock_data) = 2 /\ Len(proc[q].conf.lock_data) = 2
        /\ proc[q].conf.lock_data[2].offset > 0
        /\ proc[q].conf.lock_data[2].data_ptr # proc[p].conf.lock_data[2].data_ptr

----------------------------------------------------------------------------
(* Claims on the initialization of the primitives, checked under Spec *)

\* the init calls a handle of these locks has made when each lock was
\* initialized once, in order, with this create_new
InitsOf(p, create_new) ==
    [n \in 1..Len(proc[p].conf.lock_data) |->
        [cell |-> PrimCell(p, n), create_new |-> create_new]]

\* C15: create() calls init with create_new = true exactly once for each
\* configured lock, in the order of the configuration; open() calls it with
\* create_new = false only; and whatever creates and opens interleave, under
\* one link path or several, no primitive of a mapping is constructed twice.
C15_InitDiscipline ==
    /\ \A p \in Procs :
          /\ Owner(p) => proc[p].inits = InitsOf(p, TRUE)
          /\ Opener(p) => proc[p].inits = InitsOf(p, FALSE)
          /\ proc[p].pc = "o_lock" =>
                \A n \in 1..Len(proc[p].inits) : ~proc[p].inits[n].create_new
    /\ \A id \in Ids :
          \A m \in 1..Len(maps[id].constructed), n \in 1..Len(maps[id].constructed) :
              m # n => maps[id].constructed[m] # maps[id].constructed[n]

\* two creators under different link paths have made their regions, each
\* of two locks, and an opener has attached to the two locks of one of them
C15_Witness ==
    \E p \in Procs, q \in Procs, r \in Procs :
        /\ Owner(p) /\ Owner(q) /\ Opener(r)
        /\ proc[p].conf.link_path # proc[q].conf.link_path
        /\ Len(proc[p].inits) = 2 /\ Len(proc[q].inits) = 2 /\ Len(proc[r].inits) = 2
        /\ proc[r].os_data.unique_id = proc[p].os_data.unique_id
        /\ Len(maps[proc[p].os_data.unique_id].constructed) = 2

----------------------------------------------------------------------------
(* Claims on who writes a mapping and who removes a link file, checked
   under Spec *)

\* p is inside create() and has the mapping id
Creates(p, id) ==
    proc[p].pc \in {"c_hdr", "c_lock"} /\ proc[p].os_data.unique_id = id

\* p is inside open(), or holds a handle it may drop
OpensOrHolds(p) == proc[p].pc \in {"o_file", "o_map", "o_hdr", "o_lock", "live"}

\* C16: the bytes of a mapping, its MetaDataHeader and entry headers among
\* them, are written only by the create() that made the mapping: a step of
\* open(), successful or failing, and the drop of any handle change none.
C16_HeadersWrittenByCreateOnly ==
    [][ /\ \A id \in Ids :
              (maps[id] # NoMap /\ maps'[id].mem # maps[id].mem) =>
                  \E p \in Procs : Creates(p, id) /\ proc'[p] # proc[p]
        /\ \A p \in Procs :
              (OpensOrHolds(p) /\ proc'[p] # proc[p]) =>
                  \A id \in Ids : maps'[id].mem = maps[id].mem ]_vars

\* an opener has attached to a region of two locks and dropped its handle,
\* the creator has dropped its own, and the metadata is as create() wrote it
C16_Witness ==
    \E p \in Procs, q \in Procs, id \in Ids :
        /\ proc[p].call.op = "drop" /\ proc[p].call.how = "open"
        /\ proc[q].call.op = "drop" /\ proc[q].call.how = "create"
        /\ maps[id] # NoMap
        /\ maps[id].mem[1] > SizeOfMetaDataHeader
        /\ maps[id].mem[3] = 2
        /\ Len(maps[id].constructed) = 2

----------------------------------------------------------------------------
(* Claim on SharedMem::create, checked under SpecSimple *)

\* C17: SharedMem::create(link, kind, size) never aborts its caller, for
\* any size, zero included: it returns an error value, or a handle whose
\* configuration has the one lock of offset 0 and length size.
C17_SimpleCreateNeverAborts ==
    \A p \in Procs :
        /\ proc[p].result # "Panic"
        /\ Owner(p) =>
              /\ Len(proc[p].conf.lock_data) = 1
              /\ proc[p].conf.lock_data[1].offset = 0
              /\ proc[p].conf.lock_data[1].length = proc[p].conf.size

----------------------------------------------------------------------------
(* Claim on the order of create(), checked under SpecRegion *)

\* p is inside create(), before the write of the link file
Constructing(p) == proc[p].pc \in {"c_link", "c_map", "c_hdr", "c_lock"}

\* q is inside open() past open_mapping, or holds the handle open() returned
Attached(q) == proc[q].pc \in {"o_hdr", "o_lock"} \/ Opener(q)

\* every lock the MetaDataHeader of the mapping counts has its entry
\* written and its primitive constructed
FullyConstructed(map) ==
    /\ Len(map.mem) >= SizeOfMetaDataHeader
    /\ map.mem[1] >= SizeOfMetaDataHeader
    /\ Len(map.constructed) = map.mem[3]
    /\ Layout(map) = "Ok"

\* C18: in one create() raced by open() calls on its link path, the link
\* file is empty until the MetaDataHeader and every lock entry are written
\* and every primitive is constructed, so an open() that read an identifier
\* from the link file parses a complete header only and attaches to
\* constructed primitives only.
C18_PublishedAfterConstruction ==
    /\ \A p \in Procs :
          Constructing(p) => files[proc[p].conf.link_path].content = ""
    /\ \A q \in Procs :
          (Attached(q) /\ proc[q].real_path # "") =>
              /\ FullyConstructed(maps[proc[q].os_data.unique_id])
              /\ \A p \in Procs : ~Creates(p, proc[q].os_data.unique_id)

\* one open() came before the identifier was in the link file and failed,
\* another has attached to the finished region and parsed its two locks
C18_Witness ==
    \E q \in Procs :
        /\ Opener(q)
        /\ proc[q].real_path = some_str
        /\ Len(proc[q].conf.lock_data) = 2
        /\ Owner("p1")
        /\ \E r \in Procs :
              /\ proc[r].call.op = "open"
              /\ proc[r].result = "MappingError"

----------------------------------------------------------------------------
(* Claims on the link file a create() leaves behind, checked under Spec *)

\* the errors create() returns after File::create has made the link file
LateFailures == {"MappingError", "InitError", "PersistError"}

\* create() of p returns one of them in this step
FailsLate(p) ==
    /\ proc[p].pc \in {"c_map", "c_hdr", "c_lock"}
    /\ proc'[p].result \in LateFailures

\* the last call of q was a create() on path that failed late, and the file
\* at path is the one that call made, made by no other
LeftBehind(q, path) ==
    /\ proc[q].call.op = "create"
    /\ proc[q].call.path = path
    /\ proc[q].result \in LateFailures
    /\ files[path] # NoFile
    /\ files[path].creators = {q}

\* C19: a create() that fails after it made the link file (mapping error,
\* lock initialization error, incomplete write of the identifier) returns
\* no handle and removes no file; no process removes the file it left
\* behind; and a create() on that link path, while the file is there,
\* fails with the already-exists error.
C19_FailedCreateLeavesLink ==
    [][ /\ \A p \in Procs :
              FailsLate(p) =>
                /\ proc'[p].pc = "idle"
                /\ proc'[p].conf = NoConf
                /\ \A path \in Paths :
                      files[path] # NoFile => /\ files'[path] # NoFile
                                               /\ files'[path].ino = files[path].ino
        /\ \A q \in Procs, path \in Paths :
              LeftBehind(q, path) =>
                /\ ~Live(q)'
                /\ files'[path] = NoFile => proc' = proc
                /\ \A p \in Procs :
                      (CallsCreate(p) /\ proc[p].conf.link_path = path) =>
                          proc'[p].result = "AlreadyExists" ]_vars

\* C20: the drop of an owning handle removes no link file but the one its
\* own create() made: a file that took its place at the link path, made by
\* a second creator after the first file was deleted from outside, is left
\* as it is.
C20_DropRemovesOwnLinkOnly ==
    [][ \A p \in Procs :
          (Drops(p) /\ proc[p].how = "create") =>
              \A path \in Paths :
                  (files[path] # NoFile /\ files[path].ino # proc[p].link_file)
                      => files'[path] = files[path] ]_vars

====
